---- MODULE Spec2Model ----
(***************************************************************************)
(* Pile capacity calculator (src/app.py).                                  *)
(*                                                                         *)
(* Numbers.  Every float of the program (depths, lengths, diameters,       *)
(* pressures, the reduction factor) is a fixed-point integer counting      *)
(* hundredths: 0.5 m is 50, a reduction factor of 1.0 is 100.  The inputs  *)
(* are drawn on a grid of quarter units (multiples of 25), which binary    *)
(* floating point represents exactly, so that every comparison of the      *)
(* program (toe against layer boundaries, embedment against 3 x diameter,  *)
(* segment midpoints against layer tops) is decided by the model as the    *)
(* floats decide it.  A capacity is kept without the factor pi: the        *)
(* program's total is  pi/4 * Capacity  in the fixed-point scale           *)
(* (see calculate_capacity).                                               *)
(***************************************************************************)
EXTENDS Integers, Sequences, FiniteSets, TLC

VARIABLES units, call, calc, walk, session, file, loaded, warnings, csv_data

vars == <<units, call, calc, walk, session, file, loaded, warnings, csv_data>>

(***************************************************************************)
(* Program constants.                                                      *)
(***************************************************************************)
\* increment = 0.5 (metres), in hundredths
increment == 50
\* embed_length = 3 * diameter
EmbedFactor == 3
\* "top_depth": last_top + 10.0, in hundredths
AddStep == 1000

\* The input grid: a quarter of a unit, half a segment.
Grid == increment \div 2

(***************************************************************************)
(* Bounds of the model.                                                    *)
(***************************************************************************)
\* most layers of a session handed to calculate_capacity
MaxUnits == 2
\* most layers of a profile walked by calculate_3d_embedment_eb
MaxWalkUnits == 3
\* deepest toe of a walk, in grid steps
MaxToe == 10
\* deepest layer top, in grid steps
MaxTop == 3
\* longest pile, in grid steps
MaxLength == 6
\* widest pile, in grid steps
MaxDiameter == 1

(***************************************************************************)
(* Characters and names.  A text is a sequence of one-character strings.   *)
(***************************************************************************)
DigitChars == <<"0", "1", "2", "3", "4", "5", "6", "7", "8", "9">>

IsDigit(c) == \E k \in 1..10 : DigitChars[k] = c

DigitValue(c) == (CHOOSE k \in 1..10 : DigitChars[k] = c) - 1

\* str(n) of a non-negative int
RECURSIVE FormatNat(_)
FormatNat(n) ==
    IF n < 10 THEN <<DigitChars[n + 1]>>
    ELSE FormatNat(n \div 10) \o <<DigitChars[(n % 10) + 1]>>

\* f"Unit {i}"
UnitName(i) == <<"U", "n", "i", "t", " ">> \o FormatNat(i)

(***************************************************************************)
(* Layers.  A unit is a record name, top_depth, skin_friction,             *)
(* end_bearing, as the dicts of st.session_state.units.                    *)
(***************************************************************************)
Unit(n, t, sf, eb) ==
    [name |-> n, top_depth |-> t, skin_friction |-> sf, end_bearing |-> eb]

\* The "Dummy" layer calculate_capacity prepends.
Dummy == Unit(<<"D", "u", "m", "m", "y">>, 0, 0, 0)

\* sorted(units, key=top_depth): Python's sort is stable, so a unit goes
\* behind every unit already placed whose top_depth is not larger.
RECURSIVE InsertByTop(_, _)
InsertByTop(s, u) ==
    IF s = << >> THEN <<u>>
    ELSE IF u.top_depth < Head(s).top_depth THEN <<u>> \o s
    ELSE <<Head(s)>> \o InsertByTop(Tail(s), u)

RECURSIVE SortByTop(_)
SortByTop(us) ==
    IF us = << >> THEN << >>
    ELSE InsertByTop(SortByTop(SubSeq(us, 1, Len(us) - 1)), us[Len(us)])

\* sorted_units of calculate_capacity: sorted, with the dummy layer in front
\* when the shallowest layer starts below the surface.
sorted_units(us) ==
    LET s == SortByTop(us)
    IN  IF s # << >> /\ s[1].top_depth > 0 THEN <<Dummy>> \o s ELSE s

\* bottom_depth is the next layer's top_depth, and float("inf") for the last
\* layer: no depth reaches the last layer's bottom.
HasBottom(su, i) == i < Len(su)

bottom_depth(su, i) == su[i + 1].top_depth

\* unit["top_depth"] <= x < unit["bottom_depth"], for a depth x given k-fold
\* (k = 2 for a segment midpoint, kept doubled so that no half is rounded).
Contains(su, i, x, k) ==
    /\ k * su[i].top_depth <= x
    /\ (HasBottom(su, i) => x < k * bottom_depth(su, i))

\* for unit in sorted_units: if top <= x < bottom: ...; break
\* The index of the first such unit, 0 for None.
FirstContaining(su, x, k) ==
    IF \E i \in 1..Len(su) : Contains(su, i, x, k)
    THEN CHOOSE i \in 1..Len(su) :
            Contains(su, i, x, k) /\ \A j \in 1..(i - 1) : ~Contains(su, j, x, k)
    ELSE 0

(***************************************************************************)
(* Skin friction.                                                          *)
(***************************************************************************)
\* int(np.ceil(length / increment))
Segments(length) == -((-length) \div increment)

Min(a, b) == IF a < b THEN a ELSE b

\* SegFriction with the segment's bottom taken as the pile's toe, whatever
\* the segment (the min() of seg_bot forgotten).
SegFrictionToToe(su, seg, length) ==
    LET seg_top == seg * increment
        seg_bot == length
        seg_len == seg_bot - seg_top
        current_unit == FirstContaining(su, seg_top + seg_bot, 2)
    IN  IF current_unit = 0 THEN 0
        ELSE su[current_unit].skin_friction * seg_len

\* One segment's sf * seg_len (the perimeter pi * diameter is factored out).
SegFriction(su, seg, length) ==
    LET seg_top == seg * increment
        seg_bot == Min((seg + 1) * increment, length)
        seg_len == seg_bot - seg_top
        current_unit == FirstContaining(su, seg_top + seg_bot, 2)
    IN  IF current_unit = 0 THEN 0
        ELSE su[current_unit].skin_friction * seg_len

\* total_friction / perimeter: the sum over the first n of range(segments)
RECURSIVE FrictionSum(_, _, _)
FrictionSum(su, n, length) ==
    IF n <= 0 THEN 0
    ELSE FrictionSum(su, n - 1, length) + SegFriction(su, n - 1, length)

(***************************************************************************)
(* End bearing with the 3D embedment rule.                                 *)
(***************************************************************************)
\* ToeWithinEB crediting previous_EB before 3D whatever the unit's own value.
ToeWithinEBAlwaysPrevious(unit_EB, previous_EB, embed_depth, embed_length) ==
    IF embed_depth < embed_length THEN previous_EB ELSE unit_EB

\* Toe within the unit: the value returned.
ToeWithinEB(unit_EB, previous_EB, embed_depth, embed_length) ==
    IF embed_depth < embed_length
    THEN IF unit_EB > previous_EB /\ unit_EB > 0 THEN previous_EB ELSE 0
    ELSE unit_EB

\* PassedPreviousEB taking every passed unit's value, thin or not.
PassedPreviousEBAlwaysUnit(unit_EB, previous_EB, embed_in_unit, embed_length) ==
    unit_EB

\* Toe below the unit: previous_EB after the unit.
PassedPreviousEB(unit_EB, previous_EB, embed_in_unit, embed_length) ==
    IF embed_in_unit >= embed_length THEN unit_EB
    ELSE IF unit_EB > previous_EB /\ unit_EB > 0
         THEN IF embed_in_unit >= embed_length THEN unit_EB ELSE previous_EB
         ELSE unit_EB

\* What the loop body does with unit i: "break" (toe above the unit),
\* "return" (toe within it) or "next" (toe below it).
EBStep(toe_depth, su, i) ==
    IF toe_depth < su[i].top_depth THEN "break"
    ELSE IF HasBottom(su, i) /\ toe_depth >= bottom_depth(su, i) THEN "next"
    ELSE "return"

\* The loop from unit i on, previous_EB as it stands before unit i.
RECURSIVE EBLoop(_, _, _, _, _)
EBLoop(toe_depth, diameter, su, i, previous_EB) ==
    IF i > Len(su) THEN previous_EB
    ELSE LET step == EBStep(toe_depth, su, i)
         IN  IF step = "break" THEN previous_EB
             ELSE IF step = "return"
                  THEN ToeWithinEB(su[i].end_bearing, previous_EB,
                                   toe_depth - su[i].top_depth,
                                   EmbedFactor * diameter)
                  ELSE EBLoop(toe_depth, diameter, su, i + 1,
                              PassedPreviousEB(su[i].end_bearing, previous_EB,
                                  bottom_depth(su, i) - su[i].top_depth,
                                  EmbedFactor * diameter))

calculate_3d_embedment_eb(toe_depth, diameter, su) ==
    EBLoop(toe_depth, diameter, su, 1, 0)

(***************************************************************************)
(* calculate_capacity.  With d the diameter, the program returns           *)
(*   (sum(sf * pi*d * seg_len) + EB * pi*(d/2)^2) * reduction_factor       *)
(* = pi/4 * (4*d*FrictionSum + d*d*EB) * reduction_factor,                 *)
(* and the model keeps the integer (4*d*FrictionSum + d*d*EB) * rf.        *)
(***************************************************************************)
FrictionPart(diameter, length, su) ==
    4 * diameter * FrictionSum(su, Segments(length), length)

\* toe_unit: the unit holding the toe, else the deepest one; 0 for None
ToeUnit(su, toe_depth) ==
    LET i == FirstContaining(su, toe_depth, 1)
    IN  IF i = 0 /\ su # << >> THEN Len(su) ELSE i

\* EndBearingPart without the test of skin_friction_only.
EndBearingPartAlways(diameter, length, su, three_d_embed, skin_friction_only) ==
    LET toe_unit == ToeUnit(su, length)
    IN  IF toe_unit = 0 THEN 0
        ELSE LET effective_EB ==
                     IF three_d_embed
                     THEN calculate_3d_embedment_eb(length, diameter, su)
                     ELSE su[toe_unit].end_bearing
             IN  effective_EB * diameter * diameter

EndBearingPart(diameter, length, su, three_d_embed, skin_friction_only) ==
    IF skin_friction_only THEN 0
    ELSE LET toe_unit == ToeUnit(su, length)
         IN  IF toe_unit = 0 THEN 0
             ELSE LET effective_EB ==
                          IF three_d_embed
                          THEN calculate_3d_embedment_eb(length, diameter, su)
                          ELSE su[toe_unit].end_bearing
                  IN  effective_EB * diameter * diameter

\* The function never raises: it has no check of its arguments, and every
\* operation it applies is defined for every number.
calculate_capacity(diameter, length, us, reduction_factor, three_d_embed, skin_friction_only) ==
    LET su == sorted_units(us)
    IN  [outcome  |-> "value",
         capacity |-> (FrictionPart(diameter, length, su)
                       + EndBearingPart(diameter, length, su,
                                        three_d_embed, skin_friction_only))
                      * reduction_factor]

(***************************************************************************)
(* Inputs of the capacity computation.                                     *)
(***************************************************************************)
\* The soils of the layers: skin friction and end bearing (kPa, in
\* hundredths), none of them negative (the number inputs of the page have
\* min_value=0.0).
SoilTypes == {<<0, 0>>, <<100, 100>>, <<0, 200>>}

\* Layer tops on the grid, from the surface down.
Tops == {Grid * k : k \in 0..MaxTop}

\* The layer lists of a session: never empty (load_csv keeps the old units
\* when a file holds none, a unit is removed only while two are left), in
\* any order, with any tops.  The names play no part in a computation.
Profiles ==
    UNION {{[i \in 1..n |-> Unit(UnitName(i), ts[i], so[i][1], so[i][2])] :
               ts \in [1..n -> Tops], so \in [1..n -> SoilTypes]} :
           n \in 1..MaxUnits}

\* Pile lengths: on the grid, so also between two multiples of the segment
\* height, and with the lengths that are no pile (0 and below).
Lengths == {Grid * k : k \in (-1)..MaxLength}

Diameters == {Grid * k : k \in 0..MaxDiameter}

ReductionFactors == {50, 100}

(***************************************************************************)
(* The capacity computation as a state machine: a session's layers and     *)
(* parameters, and the cells of the sweep over the length.                 *)
(***************************************************************************)
NoCalc == [done |-> FALSE, length |-> 0, outcome |-> "none", capacity |-> 0]

NoWalk == [pc |-> "idle"]

NoFile == [lines |-> << >>, origin |-> << >>, edited |-> FALSE]

\* most layers a session is given by hand
MaxSessionUnits == 2
\* deepest top the "Add Unit" button starts from, in steps of its 10 m
MaxAddSteps == 1

NotLoaded == [done |-> FALSE, prior |-> << >>]

InitCalc ==
    /\ units \in Profiles
    /\ call \in [diameter : Diameters, reduction_factor : ReductionFactors,
                 three_d_embed : BOOLEAN, skin_friction_only : BOOLEAN]
    /\ calc = NoCalc
    /\ walk = NoWalk
    /\ session = << >>
    /\ csv_data = << >>
    /\ file = NoFile
    /\ loaded = NotLoaded
    /\ warnings = << >>

\* cap = calculate_capacity(diameter=d, length=L, units=units, ...): one cell
\* of the sweep "for L in lengths", which goes from short to long.
Calculate ==
    \E L \in Lengths :
        /\ calc.done => L > calc.length
        /\ LET r == calculate_capacity(call.diameter, L, units,
                                    call.reduction_factor, call.three_d_embed,
                                    call.skin_friction_only)
           IN  calc' = [done |-> TRUE, length |-> L,
                        outcome |-> r.outcome, capacity |-> r.capacity]
    /\ UNCHANGED <<units, call, walk, session, file, loaded, warnings, csv_data>>

NextCalc == Calculate

Spec == InitCalc /\ [][NextCalc]_vars

(***************************************************************************)
(* calculate_3d_embedment_eb step by step: one action per turn of its      *)
(* loop.  walk holds the arguments, the loop's position i, previous_EB,    *)
(* and for the claims previous_EB as it was before the unit passed last    *)
(* (before) and the unit the function returned at (at, 0 for a return      *)
(* behind the loop).                                                       *)
(***************************************************************************)
WalkEndBearings == {0, 100, 200, 300}

\* Layer thicknesses: no depth at all (two layers with one top_depth), less
\* than 3 diameters of the thinner pile, and 3 diameters of it.
WalkThicknesses == {0, Grid, 3 * Grid}

WalkDiameters == {Grid, 2 * Grid}

WalkToes == {Grid * k : k \in (-1)..MaxToe}

\* top_depth of layer i below layers of the thicknesses th
RECURSIVE TopBelow(_, _)
TopBelow(th, i) == IF i <= 1 THEN 0 ELSE TopBelow(th, i - 1) + th[i - 1]

\* The lists calculate_capacity hands over: sorted, the first layer at the
\* surface; and the empty list, which only a direct call passes.
WalkProfiles ==
    UNION {{[i \in 1..n |-> Unit(UnitName(i), TopBelow(th, i), 0, eb[i])] :
               th \in [1..(n - 1) -> WalkThicknesses],
               eb \in [1..n -> WalkEndBearings]} :
           n \in 0..MaxWalkUnits}

InitEB ==
    /\ \E su \in WalkProfiles, d \in WalkDiameters, toe \in WalkToes :
          /\ su = sorted_units(su)
          /\ walk = [pc |-> "loop", toe_depth |-> toe, diameter |-> d,
                     su |-> su, i |-> 1, previous_EB |-> 0, before |-> 0,
                     effective_EB |-> 0, at |-> 0]
    /\ units = << >>
    /\ call = << >>
    /\ calc = NoCalc
    /\ session = << >>
    /\ csv_data = << >>
    /\ file = NoFile
    /\ loaded = NotLoaded
    /\ warnings = << >>

InLoop == walk.pc = "loop" /\ walk.i <= Len(walk.su)

\* if toe_depth < unit_top: break; then return previous_EB
EBToeAbove ==
    /\ InLoop
    /\ EBStep(walk.toe_depth, walk.su, walk.i) = "break"
    /\ walk' = [walk EXCEPT !.pc = "returned",
                            !.effective_EB = walk.previous_EB]
    /\ UNCHANGED <<units, call, calc, session, file, loaded, warnings, csv_data>>

\* toe within the unit: return effective_EB
EBToeWithin ==
    /\ InLoop
    /\ EBStep(walk.toe_depth, walk.su, walk.i) = "return"
    /\ walk' = [walk EXCEPT
                  !.pc = "returned",
                  !.at = walk.i,
                  !.effective_EB =
                      ToeWithinEB(walk.su[walk.i].end_bearing,
                                  walk.previous_EB,
                                  walk.toe_depth - walk.su[walk.i].top_depth,
                                  EmbedFactor * walk.diameter)]
    /\ UNCHANGED <<units, call, calc, session, file, loaded, warnings, csv_data>>

\* toe below the unit: previous_EB is set, the loop goes on
EBToeBelow ==
    /\ InLoop
    /\ EBStep(walk.toe_depth, walk.su, walk.i) = "next"
    /\ walk' = [walk EXCEPT
                  !.i = walk.i + 1,
                  !.before = walk.previous_EB,
                  !.previous_EB =
                      PassedPreviousEB(walk.su[walk.i].end_bearing,
                                       walk.previous_EB,
                                       bottom_depth(walk.su, walk.i)
                                           - walk.su[walk.i].top_depth,
                                       EmbedFactor * walk.diameter)]
    /\ UNCHANGED <<units, call, calc, session, file, loaded, warnings, csv_data>>

\* the loop is over without a return: return previous_EB
EBExhausted ==
    /\ walk.pc = "loop" /\ walk.i > Len(walk.su)
    /\ walk' = [walk EXCEPT !.pc = "returned",
                            !.effective_EB = walk.previous_EB]
    /\ UNCHANGED <<units, call, calc, session, file, loaded, warnings, csv_data>>

NextEB == EBToeAbove \/ EBToeWithin \/ EBToeBelow \/ EBExhausted

SpecEB == InitEB /\ [][NextEB]_vars

(***************************************************************************)
(* The exchange file.  A text is a sequence of atoms: a keyword of the     *)
(* format (a parameter's key, a header's column, True, False) is one atom, *)
(* and any other character is an atom of its own.  A file is the sequence  *)
(* of its lines, as content.splitlines() gives them; no text of a session  *)
(* holds a line break.  The characters drawn are digits, ".", ",", " " and *)
(* letters that no number is written with.                                 *)
(***************************************************************************)
\* repr of a float >= 0 with at most two decimals: 0.0, 0.25, 0.5, 10.0
FormatFloat(v) ==
    LET h == v % 100
    IN  FormatNat(v \div 100) \o <<".">> \o
        (IF h % 10 = 0 THEN <<DigitChars[(h \div 10) + 1]>>
         ELSE <<DigitChars[(h \div 10) + 1], DigitChars[(h % 10) + 1]>>)

\* str of a bool
FormatBool(b) == IF b THEN <<"True">> ELSE <<"False">>

\* str.strip()
RECURSIVE StripLeft(_)
StripLeft(t) ==
    IF t # << >> /\ Head(t) = " " THEN StripLeft(Tail(t)) ELSE t

RECURSIVE StripRight(_)
StripRight(t) ==
    IF t # << >> /\ t[Len(t)] = " "
    THEN StripRight(SubSeq(t, 1, Len(t) - 1)) ELSE t

Strip(t) == StripRight(StripLeft(t))

\* str.lower()
LowerAtom(a) ==
    CASE a = "True"  -> "true"
      [] a = "False" -> "false"
      [] a = "C"     -> "c"
      [] a = "U"     -> "u"
      [] OTHER       -> a

Lower(t) == [k \in 1..Len(t) |-> LowerAtom(t[k])]

HasComma(t) == \E k \in 1..Len(t) : t[k] = ","

FirstComma(t) ==
    CHOOSE k \in 1..Len(t) : t[k] = "," /\ \A j \in 1..(k - 1) : t[j] # ","

\* line.split(",")
RECURSIVE Split(_)
Split(t) ==
    IF ~HasComma(t) THEN <<t>>
    ELSE <<SubSeq(t, 1, FirstComma(t) - 1)>>
         \o Split(SubSeq(t, FirstComma(t) + 1, Len(t)))

\* the digits of a text as a number
RECURSIVE DigitsValue(_)
DigitsValue(t) ==
    IF t = << >> THEN 0
    ELSE 10 * DigitsValue(SubSeq(t, 1, Len(t) - 1)) + DigitValue(t[Len(t)])

AllDigits(t) == \A k \in 1..Len(t) : IsDigit(t[k])

\* float(text): digits with at most one point among them, blanks around
\* them dropped; anything else is a ValueError.  The fixed point keeps two
\* decimals (no text drawn holds more).
ParseFloat(text) ==
    LET t   == Strip(text)
        dot == {k \in 1..Len(t) : t[k] = "."}
        p   == IF dot = {} THEN Len(t) + 1 ELSE CHOOSE k \in dot : TRUE
        ip  == SubSeq(t, 1, p - 1)
        fp  == SubSeq(t, p + 1, Len(t))
        f2  == SubSeq(fp \o <<"0", "0">>, 1, 2)
    IN  IF /\ Cardinality(dot) <= 1
           /\ AllDigits(ip) /\ AllDigits(fp)
           /\ Len(ip) + Len(fp) >= 1
        THEN [ok |-> TRUE, value |-> 100 * DigitsValue(ip) + DigitsValue(f2)]
        ELSE [ok |-> FALSE, value |-> 0]

\* The lines of generate_csv(): the parameters, a blank line, the units.
ParameterLines(ss) ==
    << <<"parameter", ",", "value">>,
       <<"diameter_min", ",">> \o FormatFloat(ss.diameter_min),
       <<"diameter_max", ",">> \o FormatFloat(ss.diameter_max),
       <<"length_min", ",">> \o FormatNat(ss.length_min),
       <<"length_max", ",">> \o FormatNat(ss.length_max),
       <<"reduction_factor", ",">> \o FormatFloat(ss.reduction_factor),
       <<"three_d_embed", ",">> \o FormatBool(ss.three_d_embed),
       <<"skin_friction_only", ",">> \o FormatBool(ss.skin_friction_only) >>

UnitsHeader ==
    <<"name", ",", "top_depth", ",", "skin_friction", ",", "end_bearing">>

UnitLine(u) ==
    u.name \o <<",">> \o FormatFloat(u.top_depth) \o <<",">>
    \o FormatFloat(u.skin_friction) \o <<",">> \o FormatFloat(u.end_bearing)

generate_csv(ss, us) ==
    ParameterLines(ss) \o << << >>, UnitsHeader >>
    \o [i \in 1..Len(us) |-> UnitLine(us[i])]

\* rename_units(): "Unit 1", "Unit 2", ...
rename_units(us) == [i \in 1..Len(us) |-> [us[i] EXCEPT !.name = UnitName(i)]]

(***************************************************************************)
(* load_csv.                                                               *)
(***************************************************************************)
ConversionWarning == "Skipping unit due to conversion error"

NoUnitsWarning == "No geological units found in the uploaded CSV."

LoadError == "Failed to load CSV"

\* The row's unit, when its three numbers convert.
RowUnit(parts) ==
    LET top == ParseFloat(parts[2])
        sf  == ParseFloat(parts[3])
        eb  == ParseFloat(parts[4])
    IN  [ok |-> top.ok /\ sf.ok /\ eb.ok,
         unit |-> Unit(Strip(parts[1]), top.value, sf.value, eb.value)]

\* One turn of "for line in lines".  A blank line, wherever it stands, sets
\* the mode to "units" and has the next line skipped as the header.
ParseLine(st, line) ==
    IF Strip(line) = << >>
    THEN [st EXCEPT !.mode = "units", !.skip_next_line = TRUE]
    ELSE IF st.mode = "parameters"
    THEN IF HasComma(line)
         THEN LET k == FirstComma(line)
              IN  [st EXCEPT !.params =
                      Append(@, <<Strip(SubSeq(line, 1, k - 1)),
                                  Strip(SubSeq(line, k + 1, Len(line)))>>)]
         ELSE st
    ELSE IF st.skip_next_line
    THEN [st EXCEPT !.skip_next_line = FALSE]
    ELSE LET parts == Split(line)
         IN  IF Len(parts) = 4
             THEN IF RowUnit(parts).ok
                  THEN [st EXCEPT !.units = Append(@, RowUnit(parts).unit)]
                  ELSE [st EXCEPT !.warnings = Append(@, ConversionWarning)]
             ELSE st

RECURSIVE ParseLines(_, _)
ParseLines(lines, n) ==
    IF n = 0
    THEN [mode |-> "parameters", skip_next_line |-> FALSE,
          params |-> << >>, units |-> << >>, warnings |-> << >>]
    ELSE ParseLine(ParseLines(lines, n - 1), lines[n])

\* "key in params" and params[key]: the dict keeps the last value of a key
InParams(params, key) == \E k \in 1..Len(params) : params[k][1] = <<key>>

ParamValue(params, key) ==
    LET k == CHOOSE k \in 1..Len(params) :
                 /\ params[k][1] = <<key>>
                 /\ \A j \in (k + 1)..Len(params) : params[j][1] # <<key>>
    IN  params[k][2]

\* params[key].strip().lower() == "true"
ParamIsTrue(params, key) == Lower(Strip(ParamValue(params, key))) = <<"true">>

FloatKeys == {"diameter_min", "diameter_max", "reduction_factor"}

IntKeys == {"length_min", "length_max"}

ParameterKeys ==
    <<"diameter_min", "diameter_max", "length_min", "length_max",
      "reduction_factor", "three_d_embed", "skin_friction_only">>

\* One assignment of "Update parameters".  A value that float() refuses
\* ends load_csv in its except clause, the earlier assignments made.
UpdateParameter(upd, params, key) ==
    IF upd.error \/ ~InParams(params, key) THEN upd
    ELSE IF key \in FloatKeys \/ key \in IntKeys
    THEN LET v == ParseFloat(ParamValue(params, key))
         IN  IF ~v.ok THEN [upd EXCEPT !.error = TRUE]
             ELSE [upd EXCEPT !.session[key] =
                      IF key \in IntKeys THEN v.value \div 100 ELSE v.value]
    ELSE [upd EXCEPT !.session[key] = ParamIsTrue(params, key)]

\* "Update parameters": the first n assignments, in their order.
RECURSIVE UpdateParameters(_, _, _)
UpdateParameters(ss, params, n) ==
    IF n = 0 THEN [session |-> ss, error |-> FALSE]
    ELSE UpdateParameter(UpdateParameters(ss, params, n - 1), params,
                         ParameterKeys[n])

\* load_csv(file), and the rename_units() that follows it: the session
\* state after it and what it reported.
load_csv(lines, ss, us) ==
    LET st  == ParseLines(lines, Len(lines))
        upd == UpdateParameters(ss, st.params, Len(ParameterKeys))
    IN  IF upd.error
        THEN [session |-> upd.session, units |-> rename_units(us),
              warnings |-> Append(st.warnings, LoadError)]
        ELSE IF st.units # << >>
        THEN [session |-> upd.session, units |-> rename_units(st.units),
              warnings |-> st.warnings]
        ELSE [session |-> upd.session, units |-> rename_units(us),
              warnings |-> Append(st.warnings, NoUnitsWarning)]

(***************************************************************************)
(* The session and its exchange file as a state machine: the page's        *)
(* widgets change the session, the download button writes it to a file,    *)
(* the file is changed by its owner (once: one line put in, or one value   *)
(* overwritten), and the uploader reads it back.                           *)
(* file.origin is the session the file was written from, loaded.prior the  *)
(* layers of the session the file was read into.                           *)
(***************************************************************************)
\* initialize_session_state()
DefaultSession ==
    [diameter_min |-> 30, diameter_max |-> 120,
     length_min |-> 10, length_max |-> 40,
     reduction_factor |-> 100,
     three_d_embed |-> FALSE, skin_friction_only |-> FALSE]

DefaultUnits == <<Unit(UnitName(1), 0, 0, 0)>>

\* What the sliders, the number input and the checkboxes are set to.
ParameterChoices ==
    {DefaultSession,
     [diameter_min |-> 60, diameter_max |-> 90,
      length_min |-> 2, length_max |-> 6,
      reduction_factor |-> 5,
      three_d_embed |-> TRUE, skin_friction_only |-> TRUE]}

\* What the text input of a unit's name is set to.
EditNames == {<<"C", "l", "a", "y">>, <<"a", ",", "b">>}

\* What a unit's three number inputs are set to.
EditValues == {<<0, 0, 0>>, <<0, 1525, 50000>>}

\* The lines a file's owner puts into its layer section: a blank line, a
\* row of two fields, a row of four fields with a field that is no number,
\* and a well-formed row.
InsertedLines ==
    {<< >>,
     <<"x", ",", "1", ".", "0">>,
     <<"x", ",", "1", ".", "0", ",", "x", ",", "2", ".", "0">>,
     <<"x", ",", "0", ".", "5", ",", "1", ".", "0", ",", "2", ".", "0">>}

\* csv_data = generate_csv() of a run of the script, as it is handed to the
\* download button, with the session it was written from.
Written(ss, us) ==
    [lines |-> generate_csv(ss, us),
     origin |-> [session |-> ss, units |-> us]]

\* The first run of the script: the defaults, and their text at the button.
InitCsv ==
    /\ units = DefaultUnits
    /\ session = DefaultSession
    /\ csv_data = Written(DefaultSession, DefaultUnits)
    /\ file = NoFile
    /\ loaded = NotLoaded
    /\ warnings = << >>
    /\ call = << >>
    /\ calc = NoCalc
    /\ walk = NoWalk

Editing == file = NoFile

\* Every action of the session is one run of the script: generate_csv() is
\* called before the widgets store what the user has set, so the button
\* holds the text of the session as the run found it.

\* the sliders, the number input and the checkboxes of the sidebar
SetParameters ==
    /\ Editing
    /\ csv_data' = Written(session, units)
    /\ \E ss \in ParameterChoices : ss # session /\ session' = ss
    /\ UNCHANGED <<units, file, loaded, warnings, call, calc, walk>>

\* the widgets of unit i: name, top depth, skin friction, end bearing
EditUnit ==
    /\ Editing
    /\ csv_data' = Written(session, units)
    /\ \E i \in 1..Len(units) :
       \E n \in EditNames \cup {units[i].name} :
       \E v \in EditValues \cup {<<units[i].top_depth, units[i].skin_friction,
                                   units[i].end_bearing>>} :
          /\ units' = [units EXCEPT ![i] = Unit(n, v[1], v[2], v[3])]
          /\ units' # units
    /\ UNCHANGED <<session, file, loaded, warnings, call, calc, walk>>

\* the "Remove" button of unit i, shown while there are two units or more
RemoveUnit ==
    /\ Editing
    /\ Len(units) > 1
    /\ csv_data' = Written(session, units)
    /\ \E i \in 1..Len(units) :
          units' = rename_units(SubSeq(units, 1, i - 1)
                                \o SubSeq(units, i + 1, Len(units)))
    /\ UNCHANGED <<session, file, loaded, warnings, call, calc, walk>>

\* the "Add Unit" button
AddUnit ==
    /\ Editing
    /\ Len(units) < MaxSessionUnits
    /\ units[Len(units)].top_depth < AddStep * MaxAddSteps
    /\ csv_data' = Written(session, units)
    /\ units' = rename_units(
                   Append(units, Unit(UnitName(Len(units) + 1),
                                      units[Len(units)].top_depth + AddStep,
                                      0, 0)))
    /\ UNCHANGED <<session, file, loaded, warnings, call, calc, walk>>

\* the download button: the click saves the text the button was given in the
\* run before, and starts a run that gives it the text of the session as it
\* is now.  A second click replaces the file saved by the first.
Download ==
    /\ ~loaded.done /\ ~file.edited
    /\ file.lines # csv_data.lines
    /\ file' = [lines |-> csv_data.lines, origin |-> csv_data.origin,
                edited |-> FALSE]
    /\ csv_data' = Written(session, units)
    /\ UNCHANGED <<units, session, loaded, warnings, call, calc, walk>>

\* a new session of the page, with the file kept by its owner
NewSession ==
    /\ ~Editing /\ ~loaded.done
    /\ <<session, units>> # <<DefaultSession, DefaultUnits>>
    /\ session' = DefaultSession
    /\ units' = DefaultUnits
    /\ csv_data' = Written(DefaultSession, DefaultUnits)
    /\ UNCHANGED <<file, loaded, warnings, call, calc, walk>>

\* the first blank line of a file, and its layer section: the lines behind
\* the blank line and the header that follows it
FirstBlank(lines) ==
    CHOOSE b \in 1..Len(lines) :
        lines[b] = << >> /\ \A j \in 1..(b - 1) : lines[j] # << >>

\* the owner of the file puts a line into its layer section
InsertLine ==
    /\ ~Editing /\ ~loaded.done
    /\ ~file.edited
    /\ \E line \in InsertedLines :
       \E at \in (FirstBlank(file.lines) + 2)..(Len(file.lines) + 1) :
          file' = [file EXCEPT
                     !.lines = SubSeq(@, 1, at - 1) \o <<line>>
                               \o SubSeq(@, at, Len(@)),
                     !.edited = TRUE]
    /\ UNCHANGED <<units, session, loaded, warnings, call, calc, walk, csv_data>>

\* the owner of the file writes a value that is no number for one of the
\* five numeric parameters (lines 2 to 6 of the file)
CorruptParameter ==
    /\ ~Editing /\ ~loaded.done
    /\ ~file.edited
    /\ \E n \in 2..6 :
          file' = [file EXCEPT
                     !.lines[n] = SubSeq(@, 1, 2) \o <<"x">>,
                     !.edited = TRUE]
    /\ UNCHANGED <<units, session, loaded, warnings, call, calc, walk, csv_data>>

\* the uploader: load_csv(uploaded_file); rename_units(); and then, in the
\* same run, csv_data = generate_csv() of what was loaded
Upload ==
    /\ ~Editing /\ ~loaded.done
    /\ LET r == load_csv(file.lines, session, units)
       IN  /\ session' = r.session
           /\ units' = r.units
           /\ warnings' = r.warnings
           /\ csv_data' = Written(r.session, r.units)
    /\ loaded' = [done |-> TRUE, prior |-> units]
    /\ UNCHANGED <<file, call, calc, walk>>

NextCsv ==
    \/ SetParameters \/ EditUnit \/ RemoveUnit \/ AddUnit
    \/ Download \/ NewSession \/ InsertLine \/ CorruptParameter
    \/ Upload

SpecCsv == InitCsv /\ [][NextCsv]_vars

(***************************************************************************)
(* Claims on the capacity computation (specification Spec).                *)
(***************************************************************************)
\* The capacity of the session's layers and parameters at length L, with
\* the two flags as given.
CapacityAt(L, three_d_embed, skin_friction_only) ==
    calculate_capacity(call.diameter, L, units, call.reduction_factor,
                       three_d_embed, skin_friction_only).capacity

InvalidGeometry == call.diameter <= 0 \/ calc.length <= 0

\* C3 (as claimed): a computation called with diameter <= 0 or length <= 0
\* is refused with InvalidGeometryError and returns no number.
C3_InvalidGeometryRefused ==
    (calc.done /\ InvalidGeometry) => calc.outcome = "InvalidGeometryError"

\* C4 (as claimed): with skin_friction_only, diameter > 0 and non-negative
\* skin frictions, the capacity does not decrease from a length L1 to any
\* length L2 >= L1, multiples of the segment height or not.
C4_MonotoneAnyLength ==
    [][(/\ calc.done /\ calc'.done
        /\ call.skin_friction_only /\ call.diameter > 0
        /\ calc.length <= calc'.length)
       => calc.capacity <= calc'.capacity]_vars

\* C4 (amended): with skin_friction_only, diameter > 0 and non-negative skin
\* frictions, the capacity does not decrease from a length L1 that is a
\* multiple of the 0.5 m segment height to any length L2 >= L1.
C4_MonotoneFromSegmentMultiple ==
    [][(/\ calc.done /\ calc'.done
        /\ call.skin_friction_only /\ call.diameter > 0
        /\ calc.length % increment = 0
        /\ calc.length <= calc'.length)
       => calc.capacity <= calc'.capacity]_vars

\* C4 witness: a skin-friction-only cell at a length past a shorter multiple
\* of the segment height where the capacity was strictly smaller and not 0.
C4_Witness ==
    /\ calc.done /\ call.skin_friction_only /\ call.diameter > 0
    /\ \E L1 \in Lengths :
          /\ L1 > 0 /\ L1 % increment = 0 /\ L1 < calc.length
          /\ calc.length % increment # 0
          /\ 0 < CapacityAt(L1, call.three_d_embed, TRUE)
          /\ CapacityAt(L1, call.three_d_embed, TRUE) < calc.capacity

\* C6: with skin_friction_only the end bearing adds nothing: the total is
\* the shaft friction times the reduction factor, and it is the same with
\* and without three_d_embed.
C6_SkinFrictionOnly ==
    (calc.done /\ call.skin_friction_only) =>
        /\ calc.capacity =
               FrictionPart(call.diameter, calc.length, sorted_units(units))
               * call.reduction_factor
        /\ calc.capacity = CapacityAt(calc.length, ~call.three_d_embed, TRUE)

\* C6 witness: a skin-friction-only cell whose toe stands in a layer with an
\* end bearing that the same call without the flag would have added.
C6_Witness ==
    /\ calc.done /\ call.skin_friction_only
    /\ call.diameter > 0 /\ calc.length > 0
    /\ calc.capacity > 0
    /\ CapacityAt(calc.length, call.three_d_embed, FALSE) > calc.capacity

\* C10: for diameter > 0, length > 0, a reduction factor in [0,1] and
\* non-negative end bearings, the end bearing of the 3D rule is at most the
\* end bearing of the layer holding the toe, and the capacity with
\* three_d_embed is at most the capacity without it.
C10_EmbedmentNeverAboveSimple ==
    (calc.done /\ call.diameter > 0 /\ calc.length > 0) =>
        LET su == sorted_units(units)
            with3d == IF call.three_d_embed THEN calc.capacity
                      ELSE CapacityAt(calc.length, TRUE, call.skin_friction_only)
            simple == IF call.three_d_embed
                      THEN CapacityAt(calc.length, FALSE, call.skin_friction_only)
                      ELSE calc.capacity
        IN  /\ calculate_3d_embedment_eb(calc.length, call.diameter, su)
                   <= su[FirstContaining(su, calc.length, 1)].end_bearing
            /\ with3d <= simple

\* C10 witness: a cell with three_d_embed and end bearing whose toe has
\* passed a layer and is credited that layer's smaller, non-zero end bearing:
\* its capacity is below the capacity of simple mode.
C10_Witness ==
    /\ calc.done /\ call.diameter > 0 /\ calc.length > 0
    /\ call.three_d_embed /\ ~call.skin_friction_only
    /\ calculate_3d_embedment_eb(calc.length, call.diameter,
                                 sorted_units(units)) > 0
    /\ calc.capacity < CapacityAt(calc.length, FALSE, FALSE)

(***************************************************************************)
(* Claims on the 3D embedment rule (specification SpecEB).                 *)
(***************************************************************************)
WalkEmbedLength == EmbedFactor * walk.diameter

\* bottom_depth - top_depth of a layer that is not the last
Thickness(su, i) == bottom_depth(su, i) - su[i].top_depth

\* The layers of the walk with top_depth <= toe_depth < bottom_depth.
ToeLayers == {k \in 1..Len(walk.su) : Contains(walk.su, k, walk.toe_depth, 1)}

\* C1: for a normalized profile, diameter > 0 and toe depth >= 0 the
\* function returns at the one layer holding the toe, and no layer behind it
\* is examined; with embed_depth = toe_depth - top_depth the result is, for
\* embed_depth < 3*diameter, previous_EB when the layer's end_bearing is
\* above previous_EB and above 0 and else 0, and for embed_depth >=
\* 3*diameter the layer's end_bearing.
C1_ReturnAtToeLayer ==
    (/\ walk.pc = "returned" /\ walk.su # << >>
     /\ walk.diameter > 0 /\ walk.toe_depth >= 0) =>
        /\ Cardinality(ToeLayers) = 1
        /\ LET k == CHOOSE k \in ToeLayers : TRUE
               eb == walk.su[k].end_bearing
               embed_depth == walk.toe_depth - walk.su[k].top_depth
           IN  /\ walk.at = k
               /\ walk.i = k
               /\ walk.effective_EB =
                      IF embed_depth < 3 * walk.diameter
                      THEN IF eb > walk.previous_EB /\ eb > 0
                           THEN walk.previous_EB ELSE 0
                      ELSE eb
               /\ walk.effective_EB =
                      calculate_3d_embedment_eb(walk.toe_depth, walk.diameter,
                                                walk.su)

\* C1 witness: a return in the first 3 diameters of a layer, before the
\* profile's last, that is stronger than a previous_EB above 0, so that
\* previous_EB is the result.
C1_Witness ==
    /\ walk.pc = "returned" /\ walk.at >= 2 /\ walk.at < Len(walk.su)
    /\ walk.toe_depth - walk.su[walk.at].top_depth < WalkEmbedLength
    /\ walk.previous_EB > 0
    /\ walk.su[walk.at].end_bearing > walk.previous_EB
    /\ walk.effective_EB = walk.previous_EB

\* C2 (end_bearing >= 0, as the unit inputs have min_value=0.0):
\* previous_EB starts at 0, and a layer wholly above the toe sets it to
\* the layer's end_bearing when the layer is 3 diameters thick or more, and
\* when it is thinner only if its end_bearing is at most previous_EB or is
\* 0; else previous_EB stays.
C2_PreviousEBUpdate ==
    /\ walk.i = 1 => walk.previous_EB = 0
    /\ walk.i >= 2 =>
          LET j  == walk.i - 1
              eb == walk.su[j].end_bearing
          IN  /\ walk.toe_depth >= bottom_depth(walk.su, j)
              /\ walk.previous_EB =
                     IF Thickness(walk.su, j) >= 3 * walk.diameter THEN eb
                     ELSE IF eb <= walk.before \/ eb = 0 THEN eb
                     ELSE walk.before

\* C2 witness: a thin layer stronger than a previous_EB above 0 has been
\* passed, and previous_EB has stayed.
C2_Witness ==
    /\ walk.i >= 3
    /\ Thickness(walk.su, walk.i - 1) > 0
    /\ Thickness(walk.su, walk.i - 1) < WalkEmbedLength
    /\ walk.before > 0
    /\ walk.su[walk.i - 1].end_bearing > walk.before
    /\ walk.previous_EB = walk.before

\* C8 (as claimed): when the toe has come from a unit A into the next unit
\* B, the result in the first 3 diameters of B is A's own end_bearing if
\* EB_B > EB_A and EB_B > 0 and else 0, and EB_B from 3 diameters on,
\* whatever A's thickness (here: above 0) and whatever lies above A.
C8_TransitionFromUnitAbove ==
    (/\ walk.pc = "returned" /\ walk.at >= 2 /\ walk.diameter > 0
     /\ Thickness(walk.su, walk.at - 1) > 0) =>
        LET EB_A == walk.su[walk.at - 1].end_bearing
            EB_B == walk.su[walk.at].end_bearing
            embed_depth == walk.toe_depth - walk.su[walk.at].top_depth
        IN  walk.effective_EB =
                IF embed_depth < 3 * walk.diameter
                THEN IF EB_B > EB_A /\ EB_B > 0 THEN EB_A ELSE 0
                ELSE EB_B

\* The walk is at or behind a layer N that follows a layer S of 3 diameters
\* or more and then a layer W of less.
BehindThickThenThin ==
    /\ walk.i >= 3 /\ walk.i <= Len(walk.su)
    /\ Thickness(walk.su, walk.i - 2) >= WalkEmbedLength
    /\ Thickness(walk.su, walk.i - 1) < WalkEmbedLength

\* The toe stands in the first 3 diameters of layer N, stronger than S.
ToeEarlyInStrongerNext ==
    /\ walk.pc = "returned" /\ walk.at = walk.i
    /\ walk.toe_depth - walk.su[walk.i].top_depth < WalkEmbedLength
    /\ walk.su[walk.i].end_bearing > walk.su[walk.i - 2].end_bearing

\* C9 (as claimed): behind a layer S of 3 diameters or more and a thinner
\* layer W (of thickness above 0) with 0 < end_bearing(W) <
\* end_bearing(S), previous_EB is still
\* end_bearing(S), and a toe in the first 3 diameters of a next layer
\* stronger than S is credited end_bearing(S).
C9_CarriedThroughThinWeak ==
    LET EB_S == walk.su[walk.i - 2].end_bearing
        EB_W == walk.su[walk.i - 1].end_bearing
    IN  (/\ BehindThickThenThin /\ Thickness(walk.su, walk.i - 1) > 0
         /\ 0 < EB_W /\ EB_W < EB_S) =>
            /\ walk.previous_EB = EB_S
            /\ ToeEarlyInStrongerNext => walk.effective_EB = EB_S

\* C9 (amended): behind a layer S of 3 diameters or more and a thinner layer
\* W, previous_EB is still end_bearing(S) when W is stronger than S, and a
\* toe in the first 3 diameters of a next layer stronger than S is then
\* credited end_bearing(S); when 0 < end_bearing(W) < end_bearing(S),
\* previous_EB is end_bearing(W).
C9_CarriedThroughThinStronger ==
    LET EB_S == walk.su[walk.i - 2].end_bearing
        EB_W == walk.su[walk.i - 1].end_bearing
    IN  BehindThickThenThin =>
            /\ EB_W > EB_S =>
                  /\ walk.previous_EB = EB_S
                  /\ ToeEarlyInStrongerNext => walk.effective_EB = EB_S
            /\ (0 < EB_W /\ EB_W < EB_S) => walk.previous_EB = EB_W

\* C9 witness: the toe in the first 3 diameters of a layer stronger than S,
\* behind S (end bearing above 0) and a thin layer stronger than S, with
\* end_bearing(S) as the result.
C9_Witness ==
    /\ BehindThickThenThin /\ ToeEarlyInStrongerNext
    /\ walk.su[walk.i - 2].end_bearing > 0
    /\ walk.su[walk.i - 1].end_bearing > walk.su[walk.i - 2].end_bearing
    /\ Thickness(walk.su, walk.i - 1) > 0
    /\ walk.effective_EB = walk.su[walk.i - 2].end_bearing

(***************************************************************************)
(* Claims on the exchange file (specification SpecCsv).                    *)
(***************************************************************************)
\* The numbers of a layer list, without the names.
Values(us) ==
    [i \in 1..Len(us) |->
        <<us[i].top_depth, us[i].skin_friction, us[i].end_bearing>>]

\* The session has read back a file that is as generate_csv wrote it.
ReadBackAsWritten == loaded.done /\ ~file.edited

\* C5: writing a session with generate_csv and reading the result back
\* with load_csv gives the same layers in the same order, each equal in
\* name, top_depth, skin_friction and end_bearing.
C5_RoundTripFieldEqual ==
    ReadBackAsWritten => units = file.origin.units

\* The layer section of the file: the lines behind the first blank line
\* and the header; its well-formed rows have four fields, three of them
\* numbers.
LayerSection == SubSeq(file.lines, FirstBlank(file.lines) + 2, Len(file.lines))

WellFormedRow(line) == Len(Split(line)) = 4 /\ RowUnit(Split(line)).ok

WellFormedUnits ==
    LET rows == SelectSeq(LayerSection, WellFormedRow)
    IN  [i \in 1..Len(rows) |-> RowUnit(Split(rows[i])).unit]

\* C7: a malformed record in the layer section does not abort the load and
\* costs no other record (the warning it is to give is left aside): with the
\* parameter section as it was written, every well-formed layer row of the
\* file, wherever it stands in the layer section, is in the loaded layers
\* (and nothing else is), and the parameters of the file are applied.
C7_WellFormedRowsLoaded ==
    (/\ loaded.done
     /\ SubSeq(file.lines, 1, 8) = ParameterLines(file.origin.session)
     /\ WellFormedUnits # << >>) =>
        /\ \A k \in 1..Len(warnings) : warnings[k] # LoadError
        /\ session = file.origin.session
        /\ Values(units) = Values(WellFormedUnits)

====
